---- MODULE Spec2Model ----
(***************************************************************************)
(* jobtools: configuration namespaces (ParamsNamespace), the type-driven   *)
(* argument parser, argument resolution and the TaskRunner.                *)
(*                                                                         *)
(* Python objects are trees [t |-> tag, v |-> payload]:                     *)
(*   "int" (v a number), "str" (v a string), "none",                        *)
(*   "dict" / "ns" (v a function from keys to objects; "ns" is a            *)
(*   ParamsNamespace instance, "dict" a raw mapping), "list" (v a tuple).   *)
(* File contents are document trees with tags "int", "map", "seq" and      *)
(* "pyobj" (a YAML node tagged !!python/object:...ParamsNamespace),         *)
(* "corrupt" (a truncated JSON text) and "empty" (a zero-length file).      *)
(***************************************************************************)
EXTENDS Integers, Sequences, FiniteSets, TLC

VARIABLES
    \* ---- configuration namespace (arguments.py 18-211) ----
    files,      \* the file system: path -> document tree, or NoFile
    cfg,        \* the object bound to `config` in the caller (test_arguments.py)
    first,      \* what the first ParamsNamespace.load returned (a snapshot)
    second,     \* the result of the load that follows a save
    cstage,     \* "init" | "loaded" | "saved" | "reloaded" | "failed"
    lastOp,     \* the last operation: [op, path, ext, err, opened]
    savedTo,    \* the path the last save was asked to write
    \* ---- argument resolution and the TaskRunner (arguments.py 213-399, runner.py) ----
    sig,        \* the task's signature: a tuple of parameter shapes [kind, ann, dflt]
    entry,      \* "module" (python -m jobtools), "script" (exit(tr.run(task))), "embed"
    pc,         \* where TaskRunner.run is: "init" | "resolved" | "running" | "returned"
                \*   | "failed" | "exited"
    parser,     \* the last result of get_parser_from_signature: [built, ok, err, args]
    cmdline,    \* the command line parsed: [pos, opts, debug]
    supplied,   \* the TaskArguments dictionary: parameter name -> value
    resolved,   \* the result of argument resolution: [ok, err, val]
    tokenArgs,  \* the result of resolving the same values from tokens: [done, ok, err, val]
    invoked,    \* how many times the task's body has been entered
    taskRet,    \* what the task returned
    runRet,     \* what TaskRunner.run returned
    runErr,     \* the exception that left TaskRunner.run ("" when none)
    exitCode,   \* the process exit code (-1 while the process runs)
    ignored,    \* the extra_arguments list handed to get_args_from_signature
    \* ---- the diagnostic logger (joblogger.py) ----
    LOGGER,     \* the module global _LOGGER: None, or the LoggerAdapter [id, module_arg]
    handlers,   \* how many handlers logging.getLogger('jobtools') holds
    level,      \* the level of logging.getLogger('jobtools'): "NOTSET" | "DEBUG"
    created,    \* how many LoggerAdapter instances have been constructed
    returned,   \* what the last get_logger call returned
    calls,      \* how many get_logger calls the process has made
    lastCall    \* the last get_logger call: [caller, module, debug]

cvars == <<files, cfg, first, second, cstage, lastOp, savedTo>>

avars == <<sig, entry, pc, parser, cmdline, supplied, resolved, tokenArgs, invoked, taskRet,
           runRet, runErr, exitCode>>

lvars == <<ignored, LOGGER, handlers, level, created, returned, calls, lastCall>>

vars == <<files, cfg, first, second, cstage, lastOp, savedTo,
          sig, entry, pc, parser, cmdline, supplied, resolved, tokenArgs, invoked, taskRet,
          runRet, runErr, exitCode,
          ignored, LOGGER, handlers, level, created, returned, calls, lastCall>>

(***************************************************************************)
(* Bounds of the configuration documents.                                  *)
(***************************************************************************)
MaxDepth == 3
MaxInt == 1
MaxSeqLen == 1

Keys == {"value1", "group1"}

NoneVal == [t |-> "none", v |-> 0]
NoFile == [t |-> "nofile", v |-> 0]

\* no get_logger call has been made
NoCall == [caller |-> "", module |-> NoneVal, debug |-> FALSE]

LoggerIdle ==
    /\ LOGGER = NoneVal
    /\ handlers = 0
    /\ level = "NOTSET"
    /\ created = 0
    /\ returned = NoneVal
    /\ calls = 0
    /\ lastCall = NoCall

Ok(val) == [ok |-> TRUE, err |-> "", val |-> val]
Fail(e) == [ok |-> FALSE, err |-> e, val |-> NoneVal]

\* The documents a configuration file can hold: arbitrary nesting of mappings,
\* scalars and sequences, to depth d.
RECURSIVE DocsAt(_)
DocsAt(d) ==
    IF d = 0 THEN {[t |-> "int", v |-> i] : i \in 1..MaxInt}
    ELSE LET sub == DocsAt(d - 1) IN
         sub
         \cup {[t |-> "map", v |-> m] : m \in UNION {[ks -> sub] : ks \in SUBSET Keys}}
         \cup {[t |-> "seq", v |-> s] : s \in UNION {[1..n -> sub] : n \in 0..MaxSeqLen}}

(***************************************************************************)
(* The file system.  Paths are strings; their suffix and parent directory  *)
(* (pathlib.Path.suffix, Path.glob) are tabulated.                          *)
(***************************************************************************)
Dirs == {"conf", "empty"}
SavePaths == {"out.json", "out.yml", "out.yaml", "out.txt"}
SourcePaths == {"params.yml", "params.json", "conf/a.yml"}
FilePaths == SourcePaths \cup SavePaths \cup {"missing.yml"}
DefaultExtensions == {"yml", "json"}

Suffix(p) ==
    CASE p \in {"params.yml", "conf/a.yml", "out.yml", "missing.yml"} -> ".yml"
      [] p \in {"params.json", "out.json"} -> ".json"
      [] p = "out.yaml" -> ".yaml"
      [] p = "out.txt" -> ".txt"
      [] OTHER -> ""

Parent(p) == IF p = "conf/a.yml" THEN "conf" ELSE "."

\* config_path.glob(f'*.{default_extension}'): the files of a directory with the extension
Glob(fs, dir, ext) ==
    {p \in FilePaths : fs[p] # NoFile /\ Parent(p) = dir /\ Suffix(p) = "." \o ext}

\* json.load / yaml.load(Loader=FullLoader): a document tree as plain Python objects
RECURSIVE DocToObj(_)
DocToObj(d) ==
    CASE d.t = "map" -> [t |-> "dict", v |-> [k \in DOMAIN d.v |-> DocToObj(d.v[k])]]
      [] d.t = "seq" -> [t |-> "list", v |-> [i \in DOMAIN d.v |-> DocToObj(d.v[i])]]
      [] d.t = "empty" -> NoneVal
      [] OTHER -> d

\* whether a YAML document holds a !!python/object node, which FullLoader either refuses
\* (ConstructorError) or builds into an object json.dumps then refuses (TypeError)
RECURSIVE HasPyObj(_)
HasPyObj(d) ==
    CASE d.t = "pyobj" -> TRUE
      [] d.t = "map" -> \E k \in DOMAIN d.v : HasPyObj(d.v[k])
      [] d.t = "seq" -> \E i \in DOMAIN d.v : HasPyObj(d.v[i])
      [] OTHER -> FALSE

\* json.loads(json.dumps(config), object_hook=lambda item: ParamsNamespace(**item)):
\* every mapping, at any depth and inside sequences too, becomes a namespace
RECURSIVE Namespaceify(_)
Namespaceify(o) ==
    CASE o.t = "dict" -> [t |-> "ns", v |-> [k \in DOMAIN o.v |-> Namespaceify(o.v[k])]]
      [] o.t = "list" -> [t |-> "list", v |-> [i \in DOMAIN o.v |-> Namespaceify(o.v[i])]]
      [] OTHER -> o

\* the body of file2namespace once config_path names a file: open, parse by suffix, convert
ReadConfig(fs, p) ==
    IF p \notin DOMAIN fs \/ fs[p] = NoFile
    THEN [res |-> Fail("FileNotFoundError"), opened |-> {}]
    ELSE IF Suffix(p) = ".json" THEN
        IF fs[p].t \in {"corrupt", "empty"}
        THEN [res |-> Fail("JSONDecodeError"), opened |-> {p}]
        ELSE [res |-> Ok(Namespaceify(DocToObj(fs[p]))), opened |-> {p}]
    ELSE IF Suffix(p) = ".yml" \/ Suffix(p) = ".yaml" THEN
        IF HasPyObj(fs[p])
        THEN [res |-> Fail("ConstructorError"), opened |-> {p}]
        ELSE [res |-> Ok(Namespaceify(DocToObj(fs[p]))), opened |-> {p}]
    ELSE [res |-> Fail("TypeError"), opened |-> {p}]

\* file2namespace(config_file_path, default_extension): the outcomes it can have.  For a
\* directory, next(glob) yields a matching file in the order the OS lists them, and raises
\* StopIteration when there is none (StopIteration is no RuntimeError: it is not caught).
file2namespace(fs, path, ext) ==
    IF path \in Dirs THEN
        IF Glob(fs, path, ext) = {}
        THEN {[res |-> Fail("StopIteration"), opened |-> {}]}
        ELSE {ReadConfig(fs, f) : f \in Glob(fs, path, ext)}
    ELSE {ReadConfig(fs, path)}

\* _to_dict(ns): converted = ns.__dict__ is the namespace's own attribute table, and the
\* loop stores each nested namespace's table back into it.  The fields after the call:
RECURSIVE to_dict_fields(_)
to_dict_fields(ns) ==
    [k \in DOMAIN ns.v |->
        IF ns.v[k].t = "ns"
        THEN [t |-> "dict", v |-> to_dict_fields(ns.v[k])]
        ELSE ns.v[k]]

\* what to_dict() returns, and the namespace it leaves behind (the same attribute table)
to_dict(ns) == [t |-> "dict", v |-> to_dict_fields(ns)]
after_to_dict(ns) == [t |-> "ns", v |-> to_dict_fields(ns)]

\* whether json.dump can serialize an object: a namespace is not JSON serializable
RECURSIVE JsonSerializable(_)
JsonSerializable(o) ==
    CASE o.t = "ns" -> FALSE
      [] o.t = "dict" -> \A k \in DOMAIN o.v : JsonSerializable(o.v[k])
      [] o.t = "list" -> \A i \in DOMAIN o.v : JsonSerializable(o.v[i])
      [] OTHER -> TRUE

\* the document json.dump / yaml.dump writes; yaml.dump represents a namespace as a
\* !!python/object node over its attribute table
RECURSIVE ObjToDoc(_)
ObjToDoc(o) ==
    CASE o.t = "dict" -> [t |-> "map", v |-> [k \in DOMAIN o.v |-> ObjToDoc(o.v[k])]]
      [] o.t = "ns" -> [t |-> "pyobj", v |-> [k \in DOMAIN o.v |-> ObjToDoc(o.v[k])]]
      [] o.t = "list" -> [t |-> "seq", v |-> [i \in DOMAIN o.v |-> ObjToDoc(o.v[i])]]
      [] OTHER -> o

\* ParamsNamespace.save(self, path): the file written, the error and the namespace after
save(ns, p) ==
    IF Suffix(p) = ".json" THEN
        IF JsonSerializable(to_dict(ns))
        THEN [err |-> "", doc |-> ObjToDoc(to_dict(ns)), self |-> after_to_dict(ns)]
        ELSE [err |-> "TypeError", doc |-> [t |-> "corrupt", v |-> 0],
              self |-> after_to_dict(ns)]
    ELSE IF Suffix(p) = ".yml" \/ Suffix(p) = ".yaml" THEN
        [err |-> "", doc |-> ObjToDoc(to_dict(ns)), self |-> after_to_dict(ns)]
    ELSE [err |-> "TypeError", doc |-> [t |-> "empty", v |-> 0], self |-> ns]

\* The flattened key/value set of an object: one pair per scalar leaf (and per empty
\* container), keyed by the path of attribute names and sequence positions to it.
RECURSIVE Flatten(_, _)
Flatten(o, path) ==
    IF o.t \in {"ns", "dict"} THEN
        IF DOMAIN o.v = {} THEN {<<path, [t |-> "emptymap", v |-> 0]>>}
        ELSE UNION {Flatten(o.v[k], Append(path, <<"key", k, 0>>)) : k \in DOMAIN o.v}
    ELSE IF o.t = "list" THEN
        IF DOMAIN o.v = {} THEN {<<path, [t |-> "emptyseq", v |-> 0]>>}
        ELSE UNION {Flatten(o.v[i], Append(path, <<"idx", "", i>>)) : i \in DOMAIN o.v}
    ELSE {<<path, o>>}

\* whether a raw mapping sits anywhere inside an object
RECURSIVE HasRawMapping(_)
HasRawMapping(o) ==
    CASE o.t = "dict" -> TRUE
      [] o.t = "ns" -> \E k \in DOMAIN o.v : HasRawMapping(o.v[k])
      [] o.t = "list" -> \E i \in DOMAIN o.v : HasRawMapping(o.v[i])
      [] OTHER -> FALSE

NoOp == [op |-> "none", path |-> "", ext |-> "", err |-> "", opened |-> {}]

ConfigInit ==
    /\ \E doc \in DocsAt(MaxDepth) :
         files = [p \in FilePaths |-> IF p \in SourcePaths THEN doc ELSE NoFile]
    /\ cfg = NoneVal
    /\ first = NoneVal
    /\ second = Fail("")
    /\ cstage = "init"
    /\ lastOp = NoOp
    /\ savedTo = ""

\* config = ParamsNamespace.load(path, default_extension)
CfgLoad(path, ext) ==
    /\ cstage = "init"
    /\ \E r \in file2namespace(files, path, ext) :
        /\ cfg' = r.res.val
        /\ first' = r.res.val
        /\ cstage' = IF r.res.ok THEN "loaded" ELSE "failed"
        /\ lastOp' = [op |-> "load", path |-> path, ext |-> ext,
                      err |-> r.res.err, opened |-> r.opened]
    /\ UNCHANGED <<files, second, savedTo>>

\* config.to_dict()
CfgToDict ==
    /\ cstage \in {"loaded", "saved"}
    /\ IF cfg.t = "ns"
       THEN /\ cfg' = after_to_dict(cfg)
            /\ lastOp' = [NoOp EXCEPT !.op = "to_dict"]
       ELSE /\ cfg' = cfg
            /\ lastOp' = [NoOp EXCEPT !.op = "to_dict", !.err = "AttributeError"]
    /\ UNCHANGED <<files, first, second, cstage, savedTo>>

\* config.save(path)
CfgSave(path) ==
    /\ cstage \in {"loaded", "saved"}
    /\ IF cfg.t = "ns"
       THEN /\ files' = [files EXCEPT ![path] = save(cfg, path).doc]
            /\ cfg' = save(cfg, path).self
            /\ lastOp' = [NoOp EXCEPT !.op = "save", !.path = path,
                                      !.err = save(cfg, path).err, !.opened = {path}]
       ELSE /\ UNCHANGED <<files, cfg>>
            /\ lastOp' = [NoOp EXCEPT !.op = "save", !.path = path,
                                      !.err = "AttributeError"]
    /\ cstage' = "saved"
    /\ savedTo' = path
    /\ UNCHANGED <<first, second>>

\* config = ParamsNamespace.load(path) of the path just saved (test_yaml_saving)
CfgReload ==
    /\ cstage = "saved"
    /\ \E r \in file2namespace(files, savedTo, "yml") :
        /\ second' = r.res
        /\ lastOp' = [op |-> "reload", path |-> savedTo, ext |-> "yml",
                      err |-> r.res.err, opened |-> r.opened]
    /\ cstage' = "reloaded"
    /\ UNCHANGED <<files, cfg, first, savedTo>>

ConfigNext ==
    \/ (\E path \in FilePaths \cup Dirs, ext \in DefaultExtensions : CfgLoad(path, ext))
          /\ UNCHANGED <<avars, lvars>>
    \/ CfgToDict /\ UNCHANGED <<avars, lvars>>
    \/ (\E path \in SavePaths : CfgSave(path)) /\ UNCHANGED <<avars, lvars>>
    \/ CfgReload /\ UNCHANGED <<avars, lvars>>


(***************************************************************************)
(* Signatures.  A task's signature is a tuple of parameter shapes; the i-th *)
(* parameter is named NameOf(i), a tuple of characters.  ann is the         *)
(* declared type ("none": no annotation), dflt whether a default is         *)
(* declared, kind one of "pos" (positional-or-keyword), "var" (variadic     *)
(* positional), "kwonly" and "varkw" (variadic keyword).                    *)
(***************************************************************************)
MaxParams == 2

Letters == <<"a", "b", "c", "d", "e", "f">>
NameOf(i) == <<Letters[i]>> \o [j \in 1..((i + 1) % 3) |-> "_"] \o <<"q">>

NamespaceTypes == {"SimpleNamespace", "ParamsNamespace"}
ClassTypes == {"int", "str", "bool", "enum"} \cup NamespaceTypes
GenericTypes == {"List[str]", "Tuple[int]"}
PosTypes == {"none"} \cup ClassTypes \cup GenericTypes
KwOnlyTypes == {"none", "int", "SimpleNamespace"}
VarTypes == {"none", "int"}

Shapes ==
    [kind : {"pos"}, ann : PosTypes, dflt : BOOLEAN]
    \cup [kind : {"kwonly"}, ann : KwOnlyTypes, dflt : BOOLEAN]
    \cup [kind : {"var", "varkw"}, ann : VarTypes, dflt : {FALSE}]

KindRank(k) == CASE k = "pos" -> 1 [] k = "var" -> 2 [] k = "kwonly" -> 3 [] OTHER -> 4

\* what Python's grammar lets a def declare: positional parameters first, those with a
\* default last among them; then at most one variadic positional, the keyword-only ones, one variadic keyword
WellFormed(s) ==
    \A i, j \in DOMAIN s : i < j =>
        /\ KindRank(s[i].kind) <= KindRank(s[j].kind)
        /\ (s[i].kind = s[j].kind) => s[i].kind \in {"pos", "kwonly"}
        /\ (s[i].kind = "pos" /\ s[j].kind = "pos" /\ s[i].dflt) => s[j].dflt

Signatures == UNION {{s \in [1..n -> Shapes] : WellFormed(s)} : n \in 0..MaxParams}

RECURSIVE SortedSeq(_)
SortedSeq(S) ==
    IF S = {} THEN <<>>
    ELSE LET m == CHOOSE x \in S : \A y \in S : x <= y
         IN <<m>> \o SortedSeq(S \ {m})

\* inspect.getfullargspec(method): .args, .defaults and .annotations without 'return'
fullargs_args(s) == SortedSeq({i \in DOMAIN s : s[i].kind = "pos"})
fullargs_defaults(s) == SortedSeq({i \in DOMAIN s : s[i].kind = "pos" /\ s[i].dflt})
args_annotations(s) == SortedSeq({i \in DOMAIN s : s[i].ann # "none"})

\* len(args_annotations) != len(fullargs.args) raises the missing-annotation ValueError
annotations_complete(s) == Len(args_annotations(s)) = Len(fullargs_args(s))

required_args_idxs(s) == Len(args_annotations(s)) - Len(fullargs_defaults(s))

\* is_required = idx < required_args_idxs, for the k-th annotated parameter (idx = k - 1)
is_required(s, k) == (k - 1) < required_args_idxs(s)

\* argument_flag = f"--{arg.replace('_','-')}"
argument_flag(name) == <<"-", "-">> \o [j \in DOMAIN name |-> IF name[j] = "_" THEN "-" ELSE name[j]]

\* argparse's dest of an optional flag given without dest=: the flag without its leading
\* dashes, each remaining '-' turned into '_'
RECURSIVE StripDashes(_)
StripDashes(f) == IF f # <<>> /\ Head(f) = "-" THEN StripDashes(Tail(f)) ELSE f
FlagDest(f) == [j \in DOMAIN StripDashes(f) |->
                  IF StripDashes(f)[j] = "-" THEN "_" ELSE StripDashes(f)[j]]

\* parser.add_argument(extra_arg, type=str): a positional, or an optional when it starts
\* with '-'
ExtraEntry(e) ==
    IF e # <<>> /\ Head(e) = "-"
    THEN [flag |-> e, dest |-> FlagDest(e), required |-> FALSE, conv |-> "str",
          positional |-> FALSE]
    ELSE [flag |-> e, dest |-> e, required |-> TRUE, conv |-> "str", positional |-> TRUE]

\* the add_argument call of the loop body for the k-th annotated parameter
ParamEntry(s, k) ==
    [flag |-> argument_flag(NameOf(args_annotations(s)[k])),
     dest |-> NameOf(args_annotations(s)[k]),
     required |-> is_required(s, k),
     conv |-> s[args_annotations(s)[k]].ann,
     positional |-> FALSE]

\* what the loop body raises for the k-th annotated parameter instead of registering it
ParamError(s, k) ==
    LET ann == s[args_annotations(s)[k]].ann IN
    IF ann \in NamespaceTypes /\ ~is_required(s, k) THEN "ValueError:optional_namespace"
    ELSE IF ann \in GenericTypes /\ ann # "List[str]" THEN "TypeError:unsupported"
    ELSE ""

\* the add_argument calls in order; argparse raises ArgumentError when an option string is
\* registered twice
RECURSIVE RegisterAll(_, _)
RegisterAll(pending, done) ==
    IF pending = <<>> THEN [built |-> TRUE, ok |-> TRUE, err |-> "", args |-> done]
    ELSE LET it == Head(pending) IN
         IF it.perr # ""
         THEN [built |-> TRUE, ok |-> FALSE, err |-> it.perr, args |-> done]
         ELSE IF /\ ~it.entry.positional
                 /\ \E j \in DOMAIN done :
                        ~done[j].positional /\ done[j].flag = it.entry.flag
         THEN [built |-> TRUE, ok |-> FALSE, err |-> "ArgumentError", args |-> done]
         ELSE RegisterAll(Tail(pending), Append(done, it.entry))

get_parser_from_signature(s, extra_arguments) ==
    IF ~annotations_complete(s)
    THEN [built |-> TRUE, ok |-> FALSE, err |-> "ValueError:annotations", args |-> <<>>]
    ELSE RegisterAll(
            [j \in DOMAIN extra_arguments |->
                [entry |-> ExtraEntry(extra_arguments[j]), perr |-> ""]]
            \o [k \in 1..Len(args_annotations(s)) |->
                [entry |-> ParamEntry(s, k), perr |-> ParamError(s, k)]],
            <<>>)

NoParser == [built |-> FALSE, ok |-> FALSE, err |-> "", args |-> <<>>]

(***************************************************************************)
(* Values and their conversion from command-line tokens.  A namespace      *)
(* loaded from a file is a ParamsNamespace ("ns"); "sns" is an instance of *)
(* SimpleNamespace itself; [t |-> "type"] is a class object, such as str.  *)
(***************************************************************************)
Tokens == {"1", "params.yml"}

IntVal(n) == [t |-> "int", v |-> n]
StrVal(x) == [t |-> "str", v |-> x]
BoolVal(b) == [t |-> "bool", v |-> b]
StrClass == [t |-> "type", v |-> "str"]

\* tests/params.yml, as test_arguments.py and task_print.py read it
TestParams ==
    [t |-> "map", v |->
        [value1 |-> IntVal(2), value2 |-> IntVal(6),
         group1 |-> [t |-> "map", v |-> [value1 |-> IntVal(2), value2 |-> IntVal(6)]]]]

\* the files the task's command line can name
ArgFiles == [p \in FilePaths |-> IF p \in SourcePaths THEN TestParams ELSE NoFile]

\* int(token)
IntLiterals == ("1" :> 1)

\* value.lower()
Lower(tok) == IF tok = "True" THEN "true" ELSE tok

str2bool(value) ==
    IF Lower(value) \in {"yes", "true", "t", "y", "1", "-1"} THEN Ok(BoolVal(TRUE))
    ELSE IF Lower(value) \in {"no", "false", "f", "n", "0"} THEN Ok(BoolVal(FALSE))
    ELSE Fail("ArgumentTypeError")

\* [item.strip() for item in delimited.split(',')]
delimited2list(delimited) ==
    IF delimited = "lala, pepe"
    THEN [t |-> "list", v |-> <<StrVal("lala"), StrVal("pepe")>>]
    ELSE [t |-> "list", v |-> <<StrVal(delimited)>>]

\* the members of the task's StringEnum, by value
EnumValues == {"1", "Bigger is better"}

\* argparse's _get_value: the action's type= applied to the token.  ArgumentTypeError,
\* TypeError and ValueError become a usage error (SystemExit 2); anything else the
\* conversion raises leaves parse_args as it is.
Convert(conv, tok) ==
    CASE conv = "int" ->
            IF tok \in DOMAIN IntLiterals THEN Ok(IntVal(IntLiterals[tok]))
            ELSE Fail("SystemExit")
      [] conv = "str" -> Ok(StrVal(tok))
      [] conv = "bool" ->
            IF str2bool(tok).ok THEN str2bool(tok) ELSE Fail("SystemExit")
      [] conv = "enum" ->
            IF tok \in EnumValues THEN Ok([t |-> "enum", v |-> tok]) ELSE Fail("SystemExit")
      [] conv \in NamespaceTypes ->
            LET r == (CHOOSE x \in file2namespace(ArgFiles, tok, "yml") : TRUE).res IN
            IF r.ok THEN r
            ELSE IF r.err \in {"TypeError", "JSONDecodeError"} THEN Fail("SystemExit")
            ELSE r
      [] conv = "List[str]" -> Ok(delimited2list(tok))
      [] OTHER -> Fail("SystemExit")

DebugFlag == <<"-", "-", "d", "e", "b", "u", "g">>
DebugDest == <<"d", "e", "b", "u", "g">>

\* parser.add_argument("--debug", action='store_true', required=False)
DebugEntry == [flag |-> DebugFlag, dest |-> DebugDest, required |-> FALSE,
               conv |-> "store_true", positional |-> FALSE]

\* the --flag value pairs of the command line, left to right
RECURSIVE ParseOpts(_, _, _)
ParseOpts(args, opts, acc) ==
    IF opts = <<>> THEN acc
    ELSE LET o == Head(opts)
             m == {j \in DOMAIN args : /\ ~args[j].positional
                                       /\ args[j].conv # "store_true"
                                       /\ args[j].flag = o.flag}
         IN IF m = {} THEN ParseOpts(args, Tail(opts), [acc EXCEPT !.unknown = TRUE])
            ELSE LET a == args[CHOOSE j \in m : TRUE]
                     c == Convert(a.conv, o.tok)
                 IN IF ~c.ok THEN [acc EXCEPT !.err = c.err]
                    ELSE ParseOpts(args, Tail(opts),
                                   [acc EXCEPT !.ns = [@ EXCEPT ![a.dest] = c.val],
                                               !.seen = @ \cup {a.flag}])

\* vars(parser.parse_args()) on the command line cl = [pos, opts, debug]: every dest
\* starts at its default (None, False for store_true); positional tokens fill the
\* positional arguments in order, each --flag value pair is converted and stored.
parse_args(args, cl) ==
    LET positionals == SortedSeq({j \in DOMAIN args : args[j].positional})
        dests == {args[j].dest : j \in DOMAIN args}
        ns0 == [d \in dests |->
                  IF \E j \in DOMAIN args : args[j].dest = d /\ args[j].conv = "store_true"
                  THEN BoolVal(FALSE) ELSE NoneVal]
        ns1 == [d \in dests |->
                  IF \E k \in DOMAIN positionals :
                        k <= Len(cl.pos) /\ args[positionals[k]].dest = d
                  THEN StrVal(cl.pos[CHOOSE k \in DOMAIN positionals :
                        k <= Len(cl.pos) /\ args[positionals[k]].dest = d])
                  ELSE ns0[d]]
        hasDebug == \E j \in DOMAIN args : args[j].conv = "store_true"
        ns2 == IF cl.debug /\ hasDebug THEN [ns1 EXCEPT ![DebugDest] = BoolVal(TRUE)]
               ELSE ns1
        r == ParseOpts(args, cl.opts,
                       [err |-> "", unknown |-> FALSE, ns |-> ns2, seen |-> {}])
    IN IF r.err # "" THEN [ok |-> FALSE, err |-> r.err, val |-> <<>>]
       ELSE IF \/ \E j \in DOMAIN args :
                     ~args[j].positional /\ args[j].required /\ args[j].flag \notin r.seen
               \/ Len(cl.pos) # Len(positionals)
               \/ r.unknown
               \/ (cl.debug /\ ~hasDebug)
       THEN [ok |-> FALSE, err |-> "SystemExit", val |-> <<>>]
       ELSE [ok |-> TRUE, err |-> "", val |-> r.ns]

\* for extra_arg in extra_arguments: arguments_dict.pop(extra_arg)
RECURSIVE PopExtras(_, _)
PopExtras(d, extras) ==
    IF extras = <<>> THEN [ok |-> TRUE, err |-> "", val |-> d]
    ELSE IF Head(extras) \notin DOMAIN d THEN [ok |-> FALSE, err |-> "KeyError", val |-> <<>>]
    ELSE PopExtras([k \in DOMAIN d \ {Head(extras)} |-> d[k]], Tail(extras))

\* get_args_from_signature once the parser p is built: add --debug, parse, strip the
\* extra arguments and debug
args_from_parser(p, extra_arguments, cl) ==
    IF ~p.ok THEN [ok |-> FALSE, err |-> p.err, val |-> <<>>]
    ELSE IF \E j \in DOMAIN p.args : ~p.args[j].positional /\ p.args[j].flag = DebugFlag
    THEN [ok |-> FALSE, err |-> "ArgumentError", val |-> <<>>]
    ELSE LET r == parse_args(Append(p.args, DebugEntry), cl) IN
         IF ~r.ok THEN r
         ELSE LET popped == PopExtras(r.val, extra_arguments) IN
              IF ~popped.ok THEN popped
              ELSE [ok |-> TRUE, err |-> "",
                    val |-> [k \in DOMAIN popped.val \ {DebugDest} |-> popped.val[k]]]

get_args_from_signature(s, extra_arguments, cl) ==
    args_from_parser(get_parser_from_signature(s, extra_arguments), extra_arguments, cl)

\* type(value)
TypeOf(val) ==
    CASE val.t = "ns" -> "ParamsNamespace"
      [] val.t = "sns" -> "SimpleNamespace"
      [] val.t = "none" -> "NoneType"
      [] OTHER -> val.t

\* the loop of TaskArguments.resolve_for_method from the k-th annotated parameter on
RECURSIVE ResolveFrom(_, _, _, _)
ResolveFrom(s, args, k, parsed_args) ==
    IF k > Len(args_annotations(s)) THEN [ok |-> TRUE, err |-> "", val |-> parsed_args]
    ELSE LET arg_name == NameOf(args_annotations(s)[k])
             arg_type == s[args_annotations(s)[k]].ann
         IN IF is_required(s, k) /\ arg_name \notin DOMAIN args
            THEN [ok |-> FALSE, err |-> "ValueError:required", val |-> <<>>]
            ELSE IF arg_name \notin DOMAIN args
            THEN [ok |-> FALSE, err |-> "KeyError", val |-> <<>>]
            ELSE IF arg_type = TypeOf(args[arg_name])
            THEN ResolveFrom(s, args, k + 1,
                    [n \in DOMAIN parsed_args \cup {arg_name} |->
                        IF n = arg_name THEN args[arg_name] ELSE parsed_args[n]])
            ELSE IF arg_type \in GenericTypes
            THEN [ok |-> FALSE, err |-> "TypeError", val |-> <<>>]
            ELSE IF arg_type \in NamespaceTypes /\ args[arg_name] = StrClass
            THEN [ok |-> FALSE, err |-> "TypeError", val |-> <<>>]
            ELSE [ok |-> FALSE, err |-> "ValueError:mismatch", val |-> <<>>]

resolve_for_method(s, args) ==
    IF ~annotations_complete(s)
    THEN [ok |-> FALSE, err |-> "ValueError:annotations", val |-> <<>>]
    ELSE ResolveFrom(s, args, 1, <<>>)

(***************************************************************************)
(* The TaskRunner and the two entry points.                                *)
(***************************************************************************)
\* SYS_ARGS = sys.argv[1:3] of python -m jobtools: the module and the function name,
\* as the extra arguments and as the tokens the command line holds for them
ModuleArgs == << <<"m">>, <<"f">> >>
ModuleTokens == <<"m", "f">>

\* TaskRunner.ignore_arguments as each entry point constructs the runner
ignore_arguments(e) == IF e = "module" THEN ModuleArgs ELSE <<>>

\* the flags a command line may hold: the flag of every parameter, and the first
\* parameter's name with its underscores kept, which the parser does not know
BogusFlag == <<"-", "-">> \o NameOf(1)
FlagsOf(s) == [i \in DOMAIN s |-> argument_flag(NameOf(i))]

\* the --flag value pairs of a command line that gives the parameters of `given` the
\* tokens toks, in declaration order
OptsOf(s, given, toks) ==
    [k \in 1..Cardinality(given) |->
        [flag |-> FlagsOf(s)[SortedSeq(given)[k]], tok |-> toks[SortedSeq(given)[k]]]]

\* command lines: each parameter's flag at most once, in declaration order, each with a
\* token; then possibly the unknown flag; --debug or not
CmdLines(s, e, bogusChoices, debugChoices) ==
    {[pos |-> IF e = "module" THEN ModuleTokens ELSE <<>>,
      opts |-> OptsOf(s, DOMAIN toks, toks)
               \o (IF bogus THEN <<[flag |-> BogusFlag, tok |-> "1"]>> ELSE <<>>),
      debug |-> dbg] :
        toks \in UNION {[given -> Tokens] : given \in SUBSET DOMAIN s},
        bogus \in bogusChoices, dbg \in debugChoices}

LoadedNs == Namespaceify(DocToObj(TestParams))
SnsVal == [t |-> "sns", v |-> LoadedNs.v]
EnumVal(x) == [t |-> "enum", v |-> x]
ListVal == [t |-> "list", v |-> <<StrVal("1")>>]

\* the values a TaskArguments dictionary holds, for the runner and for resolution alone
RunValues == {IntVal(1), StrVal("params.yml"), LoadedNs}
SuppliedValues ==
    RunValues \cup {SnsVal, StrClass, BoolVal(TRUE), EnumVal("1"), ListVal}

\* TaskArguments(**args): values for some of the parameters
SuppliedArgs(s, values) ==
    UNION {[{NameOf(i) : i \in given} -> values] : given \in SUBSET DOMAIN s}

\* what the task may return
RetVals == {NoneVal, IntVal(0), IntVal(8), StrVal("x")}

\* whether the call task(**args) binds: every parameter without default gets a value and
\* every keyword names a parameter (or the task takes variadic keywords)
Binds(s, keys) ==
    /\ \A i \in DOMAIN s :
          (s[i].kind \in {"pos", "kwonly"} /\ ~s[i].dflt) => NameOf(i) \in keys
    /\ \A k \in keys :
          \/ \E i \in DOMAIN s : NameOf(i) = k /\ s[i].kind \in {"pos", "kwonly"}
          \/ \E i \in DOMAIN s : s[i].kind = "varkw"

\* sys.exit(value), as the script entry calls it on run's result
SysExit(val) ==
    CASE val.t = "none" -> 0
      [] val.t = "int" -> val.v % 256
      [] OTHER -> 1

\* the exit code of a process an exception ends
UncaughtExit(err) == IF err = "SystemExit" THEN 2 ELSE 1

\* __main__.py: tr.run(callable_func) then exit(0)
ModuleExit(val) == 0

NoCmd == [pos |-> <<>>, opts |-> <<>>, debug |-> FALSE]
NoResult == [ok |-> FALSE, err |-> "", val |-> <<>>]
NoTokenArgs == [done |-> FALSE, ok |-> FALSE, err |-> "", val |-> <<>>]

Init ==
    /\ sig \in Signatures
    /\ entry \in {"module", "script", "embed"}
    /\ pc = "init"
    /\ parser = NoParser
    /\ cmdline = NoCmd
    /\ supplied = <<>>
    /\ resolved = NoResult
    /\ tokenArgs = NoTokenArgs
    /\ invoked = 0
    /\ taskRet = NoneVal
    /\ runRet = NoneVal
    /\ runErr = ""
    /\ exitCode = -1
    /\ ignored = <<>>
    /\ LoggerIdle
    /\ files = ArgFiles
    /\ cfg = NoneVal
    /\ first = NoneVal
    /\ second = Fail("")
    /\ cstage = "idle"
    /\ lastOp = NoOp
    /\ savedTo = ""

\* TaskRunner.display_help(task)
DisplayHelp ==
    /\ pc = "init"
    /\ ~parser.built
    /\ parser' = get_parser_from_signature(sig, ignore_arguments(entry))
    /\ UNCHANGED <<sig, entry, pc, cmdline, supplied, resolved, tokenArgs, invoked, taskRet,
                   runRet, runErr, exitCode>>

\* TaskRunner.run, task_arguments is None: args = get_args_from_signature(task, ...),
\* which reads the process's command line
RunResolveCli ==
    /\ pc = "init"
    /\ entry \in {"module", "script"}
    /\ LET p == get_parser_from_signature(sig, ignore_arguments(entry)) IN
       /\ parser' = p
       /\ \E cl \in CmdLines(sig, entry, {FALSE}, BOOLEAN) :
            resolved' = args_from_parser(p, ignore_arguments(entry), cl)
    /\ pc' = IF resolved'.ok THEN "resolved" ELSE "failed"
    /\ runErr' = resolved'.err
    /\ UNCHANGED <<sig, entry, cmdline, supplied, tokenArgs, invoked, taskRet, runRet, exitCode>>

\* TaskRunner.run, task_arguments given: args = self.task_arguments.resolve_for_method(task)
RunResolveDict(d) ==
    /\ pc = "init"
    /\ entry = "embed"
    /\ resolved' = resolve_for_method(sig, d)
    /\ pc' = IF resolved'.ok THEN "resolved" ELSE "failed"
    /\ runErr' = resolved'.err
    /\ UNCHANGED <<sig, entry, parser, cmdline, supplied, tokenArgs, invoked, taskRet, runRet,
                   exitCode>>

\* a run that would reach the call even when resolution raised
CanInvokeUnresolved == pc \in {"resolved", "failed"}

\* the point of run at which task(**args) is reached
CanInvoke == pc = "resolved"

\* what run hands back of the task's return value: return task(**args)
RunReturnValue(r) == r

\* task(**args): the call binds and the task's body starts, or the call raises TypeError
RunInvoke ==
    /\ CanInvoke
    /\ IF Binds(sig, DOMAIN resolved.val)
       THEN /\ invoked' = invoked + 1
            /\ pc' = "running"
            /\ runErr' = runErr
       ELSE /\ invoked' = invoked
            /\ pc' = "failed"
            /\ runErr' = "TypeError:call"
    /\ UNCHANGED <<sig, entry, parser, cmdline, supplied, resolved, tokenArgs, taskRet, runRet,
                   exitCode>>

\* the task returns r, and run returns what RunReturnValue makes of it
TaskReturn(r) ==
    /\ pc = "running"
    /\ taskRet' = r
    /\ runRet' = RunReturnValue(r)
    /\ pc' = "returned"
    /\ UNCHANGED <<sig, entry, parser, cmdline, supplied, resolved, tokenArgs, invoked, runErr,
                   exitCode>>

\* the task raises, and the exception leaves run
TaskRaise ==
    /\ pc = "running"
    /\ runErr' = "TaskError"
    /\ pc' = "failed"
    /\ UNCHANGED <<sig, entry, parser, cmdline, supplied, resolved, tokenArgs, invoked, taskRet,
                   runRet, exitCode>>

\* the process ends: exit(0) after run in __main__.py, exit(tr.run(task)) in a script, or
\* the exception that left run ends it
Exit ==
    /\ pc \in {"returned", "failed"}
    /\ entry \in {"module", "script"}
    /\ exitCode' = IF pc = "failed" THEN UncaughtExit(runErr)
                   ELSE IF entry = "module" THEN ModuleExit(runRet)
                   ELSE SysExit(runRet)
    /\ pc' = "exited"
    /\ UNCHANGED <<sig, entry, parser, cmdline, supplied, resolved, tokenArgs, invoked, taskRet,
                   runRet, runErr>>

Next ==
    \/ DisplayHelp /\ UNCHANGED <<cvars, lvars>>
    \/ RunResolveCli /\ UNCHANGED <<cvars, lvars>>
    \/ (\E d \in SuppliedArgs(sig, RunValues) : RunResolveDict(d)) /\ UNCHANGED <<cvars, lvars>>
    \/ RunInvoke /\ UNCHANGED <<cvars, lvars>>
    \/ (\E r \in RetVals : TaskReturn(r)) /\ UNCHANGED <<cvars, lvars>>
    \/ TaskRaise /\ UNCHANGED <<cvars, lvars>>
    \/ Exit /\ UNCHANGED <<cvars, lvars>>

Spec == Init /\ [][Next]_vars

\* the configuration namespace on its own: the runner's variables stay idle
ArgsIdle ==
    /\ sig = <<>>
    /\ entry = "none"
    /\ pc = "idle"
    /\ parser = NoParser
    /\ cmdline = NoCmd
    /\ supplied = <<>>
    /\ resolved = NoResult
    /\ tokenArgs = NoTokenArgs
    /\ invoked = 0
    /\ taskRet = NoneVal
    /\ runRet = NoneVal
    /\ runErr = ""
    /\ exitCode = -1
    /\ ignored = <<>>
    /\ LoggerIdle

ConfigStart == ConfigInit /\ ArgsIdle

SpecConfig == ConfigStart /\ [][ConfigNext]_vars

(***************************************************************************)
(* The parser on its own: get_parser_from_signature and                    *)
(* get_args_from_signature applied to a signature and a command line.      *)
(***************************************************************************)
ResolvedDone == resolved.ok \/ resolved.err # ""

IdleBut(p) ==
    /\ entry = "none"
    /\ pc = p
    /\ parser = NoParser
    /\ cmdline = NoCmd
    /\ resolved = NoResult
    /\ tokenArgs = NoTokenArgs
    /\ invoked = 0
    /\ taskRet = NoneVal
    /\ runRet = NoneVal
    /\ runErr = ""
    /\ exitCode = -1
    /\ LoggerIdle
    /\ files = ArgFiles
    /\ cfg = NoneVal
    /\ first = NoneVal
    /\ second = Fail("")
    /\ cstage = "idle"
    /\ lastOp = NoOp
    /\ savedTo = ""

ParseInit ==
    /\ sig \in Signatures
    /\ supplied = <<>>
    /\ ignored = <<>>
    /\ IdleBut("parse")

\* parser = get_parser_from_signature(method, [])
BuildParser ==
    /\ pc = "parse"
    /\ ~parser.built
    /\ parser' = get_parser_from_signature(sig, <<>>)
    /\ UNCHANGED <<sig, entry, pc, cmdline, supplied, resolved, tokenArgs, invoked, taskRet,
                   runRet, runErr, exitCode>>

\* arguments = get_args_from_signature(method, []) on a command line
GetArgs ==
    /\ pc = "parse"
    /\ ~ResolvedDone
    /\ LET p == get_parser_from_signature(sig, <<>>) IN
       /\ parser' = p
       /\ \E cl \in CmdLines(sig, "script", BOOLEAN, {FALSE}) :
            /\ cmdline' = cl
            /\ resolved' = args_from_parser(p, <<>>, cl)
    /\ UNCHANGED <<sig, entry, pc, supplied, tokenArgs, invoked, taskRet, runRet, runErr,
                   exitCode>>

ParseNext ==
    \/ BuildParser /\ UNCHANGED <<cvars, lvars>>
    \/ GetArgs /\ UNCHANGED <<cvars, lvars>>

SpecParse == ParseInit /\ [][ParseNext]_vars

(***************************************************************************)
(* The two resolution paths on the same values: a TaskArguments            *)
(* dictionary, and the command line that spells the same values.           *)
(***************************************************************************)
\* the token that spells a value on the command line
Encode(val) ==
    CASE val.t = "int" -> CHOOSE tok \in DOMAIN IntLiterals : IntLiterals[tok] = val.v
      [] val.t = "bool" -> IF val.v THEN "True" ELSE "False"
      [] val.t = "ns" -> "params.yml"
      [] val.t = "list" -> val.v[1].v
      [] OTHER -> val.v

Encodable(val) == val.t \in {"int", "str", "bool", "enum", "ns", "list"}

EncodeArgs(s, d) ==
    [pos |-> <<>>,
     opts |-> OptsOf(s, {i \in DOMAIN s : NameOf(i) \in DOMAIN d},
                     [i \in DOMAIN s |->
                        IF NameOf(i) \in DOMAIN d THEN Encode(d[NameOf(i)]) ELSE ""]),
     debug |-> FALSE]

ResolveInit ==
    /\ sig \in Signatures
    /\ supplied \in SuppliedArgs(sig, SuppliedValues)
    /\ ignored = <<>>
    /\ IdleBut("resolve")

\* TaskArguments(**supplied).resolve_for_method(method)
ResolveFromDict ==
    /\ pc = "resolve"
    /\ ~ResolvedDone
    /\ resolved' = resolve_for_method(sig, supplied)
    /\ UNCHANGED <<sig, entry, pc, parser, cmdline, supplied, tokenArgs, invoked, taskRet,
                   runRet, runErr, exitCode>>

\* get_args_from_signature(method, []) on the command line that spells the same values
ResolveFromTokens ==
    /\ pc = "resolve"
    /\ ~tokenArgs.done
    /\ \A n \in DOMAIN supplied : Encodable(supplied[n])
    /\ cmdline' = EncodeArgs(sig, supplied)
    /\ tokenArgs' = [done |-> TRUE,
                     ok |-> get_args_from_signature(sig, <<>>, cmdline').ok,
                     err |-> get_args_from_signature(sig, <<>>, cmdline').err,
                     val |-> get_args_from_signature(sig, <<>>, cmdline').val]
    /\ UNCHANGED <<sig, entry, pc, parser, supplied, resolved, invoked, taskRet, runRet,
                   runErr, exitCode>>

ResolveNext ==
    \/ ResolveFromDict /\ UNCHANGED <<cvars, lvars>>
    \/ ResolveFromTokens /\ UNCHANGED <<cvars, lvars>>

SpecResolve == ResolveInit /\ [][ResolveNext]_vars

(***************************************************************************)
(* get_args_from_signature with a list of extra arguments: names the       *)
(* parser accepts and get_args_from_signature then pops from the mapping.  *)
(***************************************************************************)
MaxExtras == 2

\* an extra name: a plain one, one equal to the first parameter's name, one written as a flag
ExtraNames == {<<"m">>, NameOf(1), <<"-", "-", "x">>}

ExtraLists == UNION {[1..n -> ExtraNames] : n \in 0..MaxExtras}

\* command lines for a parser with these extra arguments: one token for each positional
\* extra, then flags of parameters as in CmdLines
ExtraCmdLines(s, extra_arguments) ==
    {[pos |-> [k \in 1..Cardinality({j \in DOMAIN extra_arguments :
                                        ExtraEntry(extra_arguments[j]).positional}) |-> "m"],
      opts |-> OptsOf(s, DOMAIN toks, toks),
      debug |-> dbg] :
        toks \in UNION {[given -> Tokens] : given \in SUBSET DOMAIN s},
        dbg \in BOOLEAN}

ExtrasInit ==
    /\ sig \in Signatures
    /\ supplied = <<>>
    /\ ignored \in ExtraLists
    /\ IdleBut("parse")

\* arguments = get_args_from_signature(method, extra_arguments) on a command line
GetArgsExtras ==
    /\ pc = "parse"
    /\ ~ResolvedDone
    /\ LET p == get_parser_from_signature(sig, ignored) IN
       /\ parser' = p
       /\ \E cl \in ExtraCmdLines(sig, ignored) :
            /\ cmdline' = cl
            /\ resolved' = args_from_parser(p, ignored, cl)
    /\ UNCHANGED <<sig, entry, pc, supplied, tokenArgs, invoked, taskRet, runRet, runErr,
                   exitCode>>

ExtrasNext ==
    \/ GetArgsExtras /\ UNCHANGED <<cvars, lvars>>

SpecExtras == ExtrasInit /\ [][ExtrasNext]_vars

(***************************************************************************)
(* The diagnostic logger: get_logger as file2namespace,                    *)
(* get_parser_from_signature, TaskRunner.__init__ and __main__ call it.    *)
(***************************************************************************)
MaxCalls == 3

\* the module argument of a call: None, the empty string, or a name
LoggerModules == {NoneVal, StrVal(""), StrVal("mytask"), StrVal("mymodule")}

\* a get_logger that would take no notice of the global
LoggerNeverSet(l) == FALSE

\* if _LOGGER: a LoggerAdapter is truthy, None is not
LoggerIsSet(l) == l.t # "none"

\* get_logger(module, debug) in the state st = [LOGGER, handlers, level, created]: the
\* state it leaves and the instance it returns
get_logger(st, module, debug) ==
    IF LoggerIsSet(st.LOGGER)
    THEN [LOGGER |-> st.LOGGER, handlers |-> st.handlers, level |-> st.level,
          created |-> st.created, ret |-> st.LOGGER]
    ELSE LET tag == IF module.t = "none" \/ module.v = "" THEN "task" ELSE module.v
             adapter == [t |-> "adapter",
                         v |-> [id |-> st.created + 1, module_arg |-> tag]]
         IN [LOGGER |-> adapter,
             handlers |-> st.handlers + 1,
             level |-> IF debug THEN "DEBUG" ELSE st.level,
             created |-> st.created + 1,
             ret |-> adapter]

LoggerInit ==
    /\ ArgsIdle
    /\ files = ArgFiles
    /\ cfg = NoneVal
    /\ first = NoneVal
    /\ second = Fail("")
    /\ cstage = "idle"
    /\ lastOp = NoOp
    /\ savedTo = ""

\* one call of get_logger(module, debug) made by caller
GetLogger(caller, module, debug) ==
    /\ calls < MaxCalls
    /\ LET r == get_logger([LOGGER |-> LOGGER, handlers |-> handlers, level |-> level,
                            created |-> created], module, debug) IN
       /\ LOGGER' = r.LOGGER
       /\ handlers' = r.handlers
       /\ level' = r.level
       /\ created' = r.created
       /\ returned' = r.ret
    /\ calls' = calls + 1
    /\ lastCall' = [caller |-> caller, module |-> module, debug |-> debug]

\* file2namespace on a directory: get_logger().warning(...)
LogFile2Namespace ==
    /\ GetLogger("file2namespace", NoneVal, FALSE)
    /\ UNCHANGED <<ignored, cvars, avars>>

\* get_parser_from_signature: logger = get_logger()
LogParser ==
    /\ GetLogger("get_parser_from_signature", NoneVal, FALSE)
    /\ UNCHANGED <<ignored, cvars, avars>>

\* TaskRunner.__init__: self._logger = get_logger(name, debug)
LogTaskRunner(name, debug) ==
    /\ GetLogger("TaskRunner", name, debug)
    /\ UNCHANGED <<ignored, cvars, avars>>

\* __main__.py: logger = get_logger(module_name, DEBUG)
LogMain(module_name, debug) ==
    /\ GetLogger("__main__", module_name, debug)
    /\ UNCHANGED <<ignored, cvars, avars>>

LoggerNext ==
    \/ LogFile2Namespace
    \/ LogParser
    \/ \E name \in LoggerModules, debug \in BOOLEAN : LogTaskRunner(name, debug)
    \/ \E module_name \in LoggerModules, debug \in BOOLEAN : LogMain(module_name, debug)

SpecLogger == LoggerInit /\ [][LoggerNext]_vars

(***************************************************************************)
(* Properties of the configuration namespace, over SpecConfig.             *)
(***************************************************************************)
SupportedSuffixes == {".json", ".yml", ".yaml"}

\* C1: a configuration file whose top level is a mapping, loaded, saved to a path ending
\* in .json, .yml or .yaml and loaded again: the save succeeds, the second load succeeds,
\* and the flattened key/value set of the second namespace is that of the first.
C1_RoundTripPreserved ==
    /\ (lastOp.op = "save" /\ first.t = "ns" /\ Suffix(savedTo) \in SupportedSuffixes)
          => lastOp.err = ""
    /\ (cstage = "reloaded" /\ first.t = "ns" /\ Suffix(savedTo) \in SupportedSuffixes)
          => (second.ok /\ Flatten(second.val, <<>>) = Flatten(first, <<>>))

\* C2: after any sequence of to_dict() and save() calls on a loaded namespace, no entry of
\* it at any depth is a raw mapping.
C2_NestedNamespacesKept ==
    (cstage \in {"loaded", "saved", "reloaded"} /\ cfg.t = "ns") => ~HasRawMapping(cfg)

\* C7: load of a directory that holds no file with the default extension fails with
\* FileNotFoundError, and opens no file.
C7_EmptyDirectoryFileNotFound ==
    (lastOp.op = "load" /\ lastOp.path \in Dirs
        /\ Glob(files, lastOp.path, lastOp.ext) = {})
    => (lastOp.err = "FileNotFoundError" /\ lastOp.opened = {})


(***************************************************************************)
(* Properties of the parser, over SpecParse.                               *)
(***************************************************************************)
\* '--' plus the name with every underscore replaced by a hyphen
HyphenFlag(name) ==
    <<"-", "-">> \o [j \in DOMAIN name |-> IF name[j] = "_" THEN "-" ELSE name[j]]

\* every parameter is a named, annotated one of a type the parser supports, none of
\* namespace type has a default, and those without default come first
RequiredThenOptional(s) ==
    /\ \A i \in DOMAIN s :
          /\ s[i].kind \in {"pos", "kwonly"}
          /\ s[i].ann \in (ClassTypes \cup {"List[str]"})
          /\ ~(s[i].ann \in NamespaceTypes /\ s[i].dflt)
    /\ \A i, j \in DOMAIN s : (i < j /\ s[i].dflt) => s[j].dflt

\* the parameters the command line gives a flag for
GivenParams(s, cl) ==
    {i \in DOMAIN s : \E k \in DOMAIN cl.opts : cl.opts[k].flag = HyphenFlag(NameOf(i))}

\* the command line holds flags of parameters only, each with a token of the parameter's type
WellTypedCmd(s, cl) ==
    \A k \in DOMAIN cl.opts :
        \E i \in DOMAIN s :
            /\ cl.opts[k].flag = HyphenFlag(NameOf(i))
            /\ Convert(s[i].ann, cl.opts[k].tok).ok

\* C3: for a callable with N annotated parameters without default followed by M with
\* default, the parser is built with exactly one flag per parameter, named '--' plus the
\* hyphenated parameter name; parsing succeeds exactly when none of the N flags is omitted.
C3_OneFlagPerParameter ==
    (RequiredThenOptional(sig) /\ parser.built) =>
        /\ parser.ok
        /\ Len(parser.args) = Len(sig)
        /\ \A i \in DOMAIN sig :
              /\ parser.args[i].flag = HyphenFlag(NameOf(i))
              /\ ~parser.args[i].positional
        /\ (ResolvedDone /\ WellTypedCmd(sig, cmdline)) =>
              (resolved.ok <=> \A i \in DOMAIN sig : ~sig[i].dflt => i \in GivenParams(sig, cmdline))

\* every parameter is a positional-or-keyword one with an annotation
PlainAnnotated(s) == \A i \in DOMAIN s : s[i].kind = "pos" /\ s[i].ann # "none"

\* the value is an instance of the declared type: isinstance(value, type), a list for a
\* sequence type
MatchesDeclared(ann, val) ==
    CASE ann \in NamespaceTypes -> val.t \in {"ns", "sns"}
      [] ann = "List[str]" -> val.t = "list"
      [] OTHER -> val.t = ann

\* C12: for every command line get_args_from_signature accepts, those that omit the flags
\* of optional parameters included, every value of the resolved mapping is of the declared
\* type of its parameter.
C12_ResolvedTypesMatch ==
    (PlainAnnotated(sig) /\ resolved.ok) =>
        \A i \in DOMAIN sig :
            /\ NameOf(i) \in DOMAIN resolved.val
            /\ MatchesDeclared(sig[i].ann, resolved.val[NameOf(i)])

(***************************************************************************)
(* Properties of the runner, over Spec.                                    *)
(***************************************************************************)
HasUnannotated(s) == \E i \in DOMAIN s : s[i].ann = "none"

\* C4: when any parameter of the callable lacks a type annotation, building the parser and
\* resolving a dictionary both fail with the missing-annotation error, and no flag is
\* registered.
C4_MissingAnnotationFails ==
    HasUnannotated(sig) =>
        /\ parser.built =>
              (~parser.ok /\ parser.err = "ValueError:annotations" /\ parser.args = <<>>)
        /\ ResolvedDone =>
              (~resolved.ok /\ resolved.err = "ValueError:annotations")

HasDefaultedNamespace(s) == \E i \in DOMAIN s : s[i].ann \in NamespaceTypes /\ s[i].dflt

\* C5: for a callable that declares a parameter of a namespace type with a default,
\* get_parser_from_signature fails; it never returns a parser.
C5_DefaultedNamespaceFails ==
    (HasDefaultedNamespace(sig) /\ parser.built) => ~parser.ok

\* C6: python -m jobtools ends with the task's return value as exit code: 0 for a return
\* of 0 or a non-integer, r for any other integer r.
C6_ExitCodeIsReturnValue ==
    (entry = "module" /\ pc = "exited" /\ invoked = 1 /\ runErr = "") =>
        exitCode = (IF taskRet.t = "int" THEN taskRet.v ELSE 0)

\* C10: in either mode run invokes the task at most once and only once every annotated
\* parameter is resolved; when resolution fails the task is never invoked and run ends
\* with the resolution's error; what run returns is what the task returned.
C10_InvokedOnceAfterResolution ==
    /\ invoked <= 1
    /\ invoked = 1 =>
          /\ resolved.ok
          /\ \A k \in 1..Len(args_annotations(sig)) :
                NameOf(args_annotations(sig)[k]) \in DOMAIN resolved.val
    /\ (ResolvedDone /\ ~resolved.ok) =>
          (invoked = 0 /\ pc \in {"failed", "exited"} /\ runErr = resolved.err)
    /\ runRet = taskRet
    /\ pc = "returned" => invoked = 1

C10_Witness ==
    /\ pc = "returned"
    /\ invoked = 1
    /\ resolved.ok
    /\ taskRet = IntVal(8)
    /\ runRet = IntVal(8)

(***************************************************************************)
(* Properties of the two resolution paths, over SpecResolve.               *)
(***************************************************************************)
AllSupplied(s, d) == \A i \in DOMAIN s : NameOf(i) \in DOMAIN d

\* the value's type is the declared one, or the declared type is a namespace type and the
\* value is a string
Acceptable(ann, val) == ann = TypeOf(val) \/ (ann \in NamespaceTypes /\ val.t = "str")

\* what an accepted value resolves to
ExpectedValue(ann, val) ==
    IF ann # TypeOf(val) /\ ann \in NamespaceTypes /\ val.t = "str"
    THEN (CHOOSE x \in file2namespace(ArgFiles, val.v, "yml") : TRUE).res.val
    ELSE val

\* C8: resolve_for_method accepts a supplied value iff its type is exactly the declared
\* one, or the declared type is a namespace type and the value is a string, which resolves
\* to the namespace loaded from that path; any other mismatch is the type-mismatch error.
C8_ExactTypeOrNamespacePath ==
    (PlainAnnotated(sig) /\ AllSupplied(sig, supplied) /\ ResolvedDone) =>
        IF \A i \in DOMAIN sig : Acceptable(sig[i].ann, supplied[NameOf(i)])
        THEN /\ resolved.ok
             /\ \A i \in DOMAIN sig :
                   /\ NameOf(i) \in DOMAIN resolved.val
                   /\ resolved.val[NameOf(i)] = ExpectedValue(sig[i].ann, supplied[NameOf(i)])
        ELSE ~resolved.ok /\ resolved.err = "ValueError:mismatch"

\* the assignment gives every parameter without default a value, and every value is of
\* the declared type
RequiredGiven(s, d) ==
    /\ \A i \in DOMAIN s : ~s[i].dflt => NameOf(i) \in DOMAIN d
    /\ \A i \in DOMAIN s : NameOf(i) \in DOMAIN d =>
          \/ TypeOf(d[NameOf(i)]) = s[i].ann
          \/ (s[i].ann = "List[str]" /\ d[NameOf(i)].t = "list")

\* C9: for a callable with annotated parameters and values for a set of them that includes
\* the required ones, resolving the tokens that spell the values and resolving the
\* dictionary that holds them both succeed, with the same mapping.
C9_TokenAndDictPathsAgree ==
    (/\ PlainAnnotated(sig)
     /\ RequiredThenOptional(sig)
     /\ RequiredGiven(sig, supplied)
     /\ ResolvedDone
     /\ tokenArgs.done) =>
        (resolved.ok /\ tokenArgs.ok /\ resolved.val = tokenArgs.val)

(***************************************************************************)
(* Properties of get_args_from_signature with extra arguments, over        *)
(* SpecExtras.                                                             *)
(***************************************************************************)
\* parse_args returned: get_args_from_signature returned a mapping, or raised while
\* popping the extra arguments from it
ParsingSucceeded == resolved.ok \/ resolved.err = "KeyError"

\* C11: for any list of extra argument names (repeated names, names written as flags and
\* names equal to a parameter's name included), whenever parsing succeeds
\* get_args_from_signature returns a mapping whose keys are exactly the declared
\* parameter names: the extras and debug are removed, no declared parameter is.
C11_ExtrasStrippedOnly ==
    (PlainAnnotated(sig) /\ ResolvedDone /\ ParsingSucceeded) =>
        /\ resolved.ok
        /\ DOMAIN resolved.val = {NameOf(i) : i \in DOMAIN sig}

(***************************************************************************)
(* Properties of the logger, over SpecLogger.                              *)
(***************************************************************************)
\* C13: after any sequence of get_logger calls the logger has been created exactly once,
\* on the first call, with that call's module tag and level; every later call returns
\* that instance, attaches no handler, and changes neither its tag nor its level.
C13_LoggerCreatedOnce ==
    /\ [](/\ created <= 1
          /\ handlers = created
          /\ calls > 0 => (created = 1 /\ LOGGER.t = "adapter" /\ returned = LOGGER)
          /\ calls = 1 =>
                /\ LOGGER.v.module_arg =
                      (IF lastCall.module \in {NoneVal, StrVal("")} THEN "task"
                       ELSE lastCall.module.v)
                /\ level = (IF lastCall.debug THEN "DEBUG" ELSE "NOTSET"))
    /\ [][LOGGER.t = "adapter" =>
            /\ LOGGER' = LOGGER
            /\ handlers' = handlers
            /\ level' = level
            /\ created' = created
            /\ returned' = LOGGER]_vars

C13_Witness ==
    /\ calls >= 2
    /\ created = 1
    /\ handlers = 1
    /\ LOGGER.t = "adapter"
    /\ LOGGER.v.module_arg = "mytask"
    /\ level = "NOTSET"
    /\ lastCall = [caller |-> "TaskRunner", module |-> StrVal("mymodule"), debug |-> TRUE]
    /\ returned = LOGGER

====
